---------------------------- MODULE Spec2Model ----------------------------
(***************************************************************************)
(* A model of generate_icons.py: the converter of inline SVG icons into    *)
(* Android VectorDrawable XML files.                                       *)
(*                                                                         *)
(* Text is modelled as a sequence of one-character strings, so that the    *)
(* regular expressions, float() and split() of the script are computed     *)
(* character by character.  Str turns such a sequence into a TLA+ string   *)
(* where a value is compared with a literal.                               *)
(*                                                                         *)
(* Floats are modelled exactly on the values whose double representation   *)
(* is exact and whose repr is short: multiples of one half, with a signed  *)
(* zero.  All numeric attributes of the embedded icons are of that kind.   *)
(* The file system is modelled as reliable (no I/O error is injected).     *)
(***************************************************************************)
EXTENDS Integers, Sequences, FiniteSets, TLC

VARIABLES
    matches,     \* the (name, svg) pairs found in icon_rs_content
    dirs,        \* the directories that exist
    files,       \* the files that exist: path -> content
    console,     \* the lines printed by the current run
    writeLog,    \* the writes completed by the current run, in order
    pc,          \* position of the script
    idx,         \* index in matches of the icon being processed
    paths,       \* the path list of the icon being processed
    err,         \* the exception that ended the run, or "none"
    mkdirCalls,  \* number of os.makedirs calls of the current run
    run,         \* 1 for the first run, 2 for the run repeated on the same input
    firstRun,    \* the files as the first run left them, and its writes
    arg,         \* unit specifications: the argument of the function applied
    ret,         \* unit specifications: its result
    upc          \* unit specifications: position

vars == <<matches, dirs, files, console, writeLog, pc, idx, paths, err,
          mkdirCalls, run, firstRun, arg, ret, upc>>

pipelineVars == <<matches, dirs, files, console, writeLog, pc, idx, paths, err,
                  mkdirCalls, run, firstRun>>

unitVars == <<arg, ret, upc>>

----------------------------------------------------------------------------
(* Characters and strings *)

UpperSeq == <<"A","B","C","D","E","F","G","H","I","J","K","L","M",
              "N","O","P","Q","R","S","T","U","V","W","X","Y","Z">>

LowerSeq == <<"a","b","c","d","e","f","g","h","i","j","k","l","m",
              "n","o","p","q","r","s","t","u","v","w","x","y","z">>

DigitSeq == <<"0","1","2","3","4","5","6","7","8","9">>

Range(f) == { f[i] : i \in DOMAIN f }

IsUpper(c) == c \in Range(UpperSeq)

IsLower(c) == c \in Range(LowerSeq)

IsDigit(c) == c \in Range(DigitSeq)

IsSpace(c) == c \in {" ", "\t", "\n", "\r"}

\* str.lower() on one character
LowerChar(c) ==
    IF IsUpper(c) THEN LowerSeq[CHOOSE i \in DOMAIN UpperSeq : UpperSeq[i] = c]
    ELSE c

\* str.lower()
lower(s) == [i \in DOMAIN s |-> LowerChar(s[i])]

DigitVal(c) == (CHOOSE i \in DOMAIN DigitSeq : DigitSeq[i] = c) - 1

\* the string that the characters of s spell (split in halves: the recursion
\* is as deep as the logarithm of the length)
RECURSIVE Str(_)
Str(s) ==
    IF s = <<>> THEN ""
    ELSE IF Len(s) = 1 THEN s[1]
    ELSE LET m == Len(s) \div 2
         IN  Str(SubSeq(s, 1, m)) \o Str(SubSeq(s, m + 1, Len(s)))

StartsWith(s, p) == Len(s) >= Len(p) /\ SubSeq(s, 1, Len(p)) = p

\* str.replace(old, new), old non-empty
RECURSIVE replace(_, _, _)
replace(s, old, new) ==
    IF s = <<>> THEN <<>>
    ELSE IF StartsWith(s, old)
         THEN new \o replace(SubSeq(s, Len(old) + 1, Len(s)), old, new)
         ELSE <<Head(s)>> \o replace(Tail(s), old, new)

\* str.strip()
RECURSIVE lstrip(_)
lstrip(s) == IF s # <<>> /\ IsSpace(Head(s)) THEN lstrip(Tail(s)) ELSE s

RECURSIVE rstrip(_)
rstrip(s) ==
    IF s # <<>> /\ IsSpace(s[Len(s)]) THEN rstrip(SubSeq(s, 1, Len(s) - 1)) ELSE s

strip(s) == rstrip(lstrip(s))

\* str.split(): the maximal runs of non-whitespace characters, in order
RECURSIVE SplitFrom(_, _)
SplitFrom(s, cur) ==
    IF s = <<>> THEN (IF cur = <<>> THEN <<>> ELSE <<cur>>)
    ELSE IF IsSpace(Head(s))
         THEN (IF cur = <<>> THEN <<>> ELSE <<cur>>) \o SplitFrom(Tail(s), <<>>)
         ELSE SplitFrom(Tail(s), Append(cur, Head(s)))

split(s) == SplitFrom(s, <<>>)

----------------------------------------------------------------------------
(* to_snake_case *)

\* length of the longest prefix of s made of lowercase letters
RECURSIVE LowerRun(_)
LowerRun(s) == IF s # <<>> /\ IsLower(Head(s)) THEN 1 + LowerRun(Tail(s)) ELSE 0

\* the first substitution with the replacement r'\1_': the word is dropped
RECURSIVE SubWordDropped(_)
SubWordDropped(s) ==
    IF Len(s) < 3 THEN s
    ELSE IF s[1] # "\n" /\ IsUpper(s[2]) /\ IsLower(s[3])
         THEN <<s[1], "_">>
                  \o SubWordDropped(SubSeq(s, 3 + LowerRun(SubSeq(s, 3, Len(s))), Len(s)))
         ELSE <<s[1]>> \o SubWordDropped(Tail(s))

\* re.sub('(.)([A-Z][a-z]+)', r'\1_\2', s): leftmost non-overlapping matches,
\* [a-z]+ greedy; '.' matches anything but a newline
RECURSIVE SubWord(_)
SubWord(s) ==
    IF Len(s) < 3 THEN s
    ELSE IF s[1] # "\n" /\ IsUpper(s[2]) /\ IsLower(s[3])
         THEN LET k == 2 + LowerRun(SubSeq(s, 3, Len(s)))
              IN  <<s[1], "_">> \o SubSeq(s, 2, k) \o SubWord(SubSeq(s, k + 1, Len(s)))
         ELSE <<s[1]>> \o SubWord(Tail(s))

\* re.sub('([a-z0-9])([A-Z])', r'\1_\2', s)
RECURSIVE SubCap(_)
SubCap(s) ==
    IF Len(s) < 2 THEN s
    ELSE IF (IsLower(s[1]) \/ IsDigit(s[1])) /\ IsUpper(s[2])
         THEN <<s[1], "_", s[2]>> \o SubCap(SubSeq(s, 3, Len(s)))
         ELSE <<s[1]>> \o SubCap(Tail(s))

\* to_snake_case without the final .lower()
to_snake_case_cased(name) == SubCap(SubWord(name))

to_snake_case(name) == lower(SubCap(SubWord(name)))

----------------------------------------------------------------------------
(* float(), float arithmetic and the formatting of a float in an f-string *)

\* A float that is a multiple of one half: the value is h/2, negated when neg.
\* neg with h = 0 is the negative zero.
MkFloat(neg, h) == [neg |-> neg, h |-> h]

SInt(v) == IF v.neg THEN -v.h ELSE v.h

Abs(n) == IF n < 0 THEN -n ELSE n

\* a + b on floats; a zero sum is -0.0 only when both operands are -0.0
FAdd(a, b) ==
    LET s == SInt(a) + SInt(b)
    IN  IF s = 0 THEN MkFloat(a.neg /\ b.neg, 0) ELSE MkFloat(s < 0, Abs(s))

\* -a on floats: flips the sign, of zero too
FNeg(a) == MkFloat(~a.neg, a.h)

\* a - b on floats
FSub(a, b) == FAdd(a, FNeg(b))

\* a == 0 on floats
FIsZero(a) == a.h = 0

AllDigits(s) == \A i \in DOMAIN s : IsDigit(s[i])

RECURSIVE DigitsVal(_)
DigitsVal(s) ==
    IF s = <<>> THEN 0 ELSE 10 * DigitsVal(SubSeq(s, 1, Len(s) - 1)) + DigitVal(s[Len(s)])

RECURSIVE IntDigits(_)
IntDigits(n) ==
    IF n < 10 THEN <<DigitSeq[n + 1]>> ELSE Append(IntDigits(n \div 10), DigitSeq[(n % 10) + 1])

DotAt(s) == IF \E i \in DOMAIN s : s[i] = "."
            THEN CHOOSE i \in DOMAIN s : s[i] = "." /\ \A j \in 1..(i - 1) : s[j] # "."
            ELSE 0

\* the halves a fraction digit string stands for: 0 for "" and "00", 1 for "5"
\* and "50"; -1 for a fraction that is no multiple of one half (not modelled)
FracHalves(f) ==
    IF \A i \in DOMAIN f : f[i] = "0" THEN 0
    ELSE IF f[1] = "5" /\ \A i \in 2..Len(f) : f[i] = "0" THEN 1
    ELSE -1

\* the value of an optionally signed digit string with at most one dot:
\* ip and fp are the characters before and after the dot
FloatOfParts(neg, ip, fp) ==
    IF AllDigits(ip) /\ AllDigits(fp) /\ Len(ip) + Len(fp) >= 1
    THEN IF FracHalves(fp) >= 0
         THEN [raised |-> "none", v |-> MkFloat(neg, 2 * DigitsVal(ip) + FracHalves(fp))]
         ELSE [raised |-> "unmodelled", v |-> MkFloat(FALSE, 0)]
    ELSE [raised |-> "ValueError", v |-> MkFloat(FALSE, 0)]

FloatOfBody(neg, body, d) ==
    IF d = 0 THEN FloatOfParts(neg, body, <<>>)
    ELSE FloatOfParts(neg, SubSeq(body, 1, d - 1), SubSeq(body, d + 1, Len(body)))

FloatOfSigned(neg, body) == FloatOfBody(neg, body, DotAt(body))

FloatOfStripped(t) ==
    IF t # <<>> /\ Head(t) \in {"+", "-"} THEN FloatOfSigned(Head(t) = "-", Tail(t))
    ELSE FloatOfSigned(FALSE, t)

\* float() with a fallback: a text that is no number reads as 0.0
FloatOrZero(r) == IF r.raised = "ValueError" THEN [raised |-> "none", v |-> MkFloat(FALSE, 0)] ELSE r

float_or_zero(text) == FloatOrZero(FloatOfStripped(strip(text)))

\* float(text) on the modelled alphabet (digits, sign, dot, whitespace, and
\* letters that spell no float): surrounding whitespace is stripped, then an
\* optional sign, then digits with at most one dot and at least one digit.
\* Anything else raises ValueError.
float(text) == FloatOfStripped(strip(text))

\* a float formatted like %g: a whole number loses its ".0"
fmt_g(v) ==
    (IF v.neg THEN <<"-">> ELSE <<>>) \o IntDigits(v.h \div 2)
        \o (IF v.h % 2 = 0 THEN <<>> ELSE <<".", "5">>)

\* f"{v}" for a float v: repr, the shortest decimal that reads back as v
fmt(v) ==
    (IF v.neg THEN <<"-">> ELSE <<>>) \o IntDigits(v.h \div 2)
        \o <<".", (IF v.h % 2 = 0 THEN "0" ELSE "5")>>

----------------------------------------------------------------------------
(* parse_svg_content: one shape tag to path data *)

\* dict.get(key, default)
get(attr_dict, key, default) == IF key \in DOMAIN attr_dict THEN attr_dict[key] ELSE default

Zero == <<"0">>

Raise(e) == [raised |-> e, out |-> <<>>]

Emit(d) == [raised |-> "none", out |-> <<d>>]

Nothing == [raised |-> "none", out |-> <<>>]

\* paths.append(attr_dict.get('d', ''))
ConvertPath(attr_dict) == Emit(get(attr_dict, "d", <<>>))

\* f"M {x1} {y1} L {x2} {y2}"
ConvertLine(attr_dict) ==
    LET x1 == get(attr_dict, "x1", Zero)
        y1 == get(attr_dict, "y1", Zero)
        x2 == get(attr_dict, "x2", Zero)
        y2 == get(attr_dict, "y2", Zero)
    IN  Emit(<<"M", " ">> \o x1 \o <<" ">> \o y1 \o <<" ", "L", " ">> \o x2 \o <<" ">> \o y2)

\* for i in range(2, len(clean_points), 2): d += f" L {clean_points[i]} {clean_points[i+1]}"
\* i is the 0-based index of the loop; clean_points[i+1] raises IndexError
\* when i + 1 is no index of the list
RECURSIVE PointsLoop(_, _, _)
PointsLoop(clean_points, i, d) ==
    IF i >= Len(clean_points) THEN [raised |-> "none", d |-> d]
    ELSE IF i + 2 > Len(clean_points) THEN [raised |-> "IndexError", d |-> d]
    ELSE PointsLoop(clean_points, i + 2,
                    d \o <<" ", "L", " ">> \o clean_points[i + 1] \o <<" ">> \o clean_points[i + 2])

PointsResult(r, close) ==
    IF r.raised # "none" THEN Raise(r.raised) ELSE Emit(r.d \o close)

\* `if len(clean_points) >= 2:` and what it guards
PointsPath(clean_points, close) ==
    IF Len(clean_points) >= 2
    THEN PointsResult(PointsLoop(clean_points, 2,
                        <<"M", " ">> \o clean_points[1] \o <<" ">> \o clean_points[2]),
                      close)
    ELSE Nothing

\* `if points:` and clean_points = points.replace(',', ' ').split()
PointsOf(points, close) ==
    IF points = <<>> THEN Nothing
    ELSE PointsPath(split(replace(points, <<",">>, <<" ">>)), close)

\* the body shared by the polyline and the polygon branch; close is " Z" or ""
ConvertPoints(attr_dict, close) == PointsOf(get(attr_dict, "points", <<>>), close)

ConvertPolyline(attr_dict) == ConvertPoints(attr_dict, <<>>)

ConvertPolygon(attr_dict) == ConvertPoints(attr_dict, <<" ", "Z">>)

\* the first exception among the float() calls, in call order, or "none"
RECURSIVE FirstRaised(_)
FirstRaised(rs) ==
    IF rs = <<>> THEN "none"
    ELSE IF Head(rs).raised # "none" THEN Head(rs).raised
    ELSE FirstRaised(Tail(rs))

Comma == <<",">>

Sp == <<" ">>

\* the arc with the sweep flag 0
ArcToCounter(rx, ry, px, py) ==
    <<"A", " ">> \o fmt(rx) \o Comma \o fmt(ry) \o <<" ", "0", " ", "0", " ", "0", " ">>
        \o fmt(px) \o Comma \o fmt(py) \o Sp

\* f"A {rx},{ry} 0 0 1 {px},{py} "
ArcTo(rx, ry, px, py) ==
    <<"A", " ">> \o fmt(rx) \o Comma \o fmt(ry) \o <<" ", "0", " ", "0", " ", "1", " ">>
        \o fmt(px) \o Comma \o fmt(py) \o Sp

\* f"L {px},{py} "
LineTo(px, py) == <<"L", " ">> \o fmt(px) \o Comma \o fmt(py) \o Sp

\* f"M {x} {y} h {w} v {h} h {-w} Z"
SharpRect(x, y, w, h) ==
    <<"M", " ">> \o fmt(x) \o Sp \o fmt(y) \o <<" ", "h", " ">> \o fmt(w)
        \o <<" ", "v", " ">> \o fmt(h) \o <<" ", "h", " ">> \o fmt(FNeg(w)) \o <<" ", "Z">>

\* the rounded rect: M, then line and arc four times, then Z
RoundRect(x, y, w, h, rx, ry) ==
    <<"M", " ">> \o fmt(FAdd(x, rx)) \o Comma \o fmt(y) \o Sp
        \o LineTo(FSub(FAdd(x, w), rx), y)
        \o ArcTo(rx, ry, FAdd(x, w), FAdd(y, ry))
        \o LineTo(FAdd(x, w), FSub(FAdd(y, h), ry))
        \o ArcTo(rx, ry, FSub(FAdd(x, w), rx), FAdd(y, h))
        \o LineTo(FAdd(x, rx), FAdd(y, h))
        \o ArcTo(rx, ry, x, FSub(FAdd(y, h), ry))
        \o LineTo(x, FAdd(y, ry))
        \o ArcTo(rx, ry, FAdd(x, rx), y)
        \o <<"Z">>

\* x .. ry are the results of the six float() calls
RectOf(x, y, w, h, rx, ry) ==
    IF FirstRaised(<<x, y, w, h, rx, ry>>) # "none"
    THEN Raise(FirstRaised(<<x, y, w, h, rx, ry>>))
    ELSE IF FIsZero(rx.v) /\ FIsZero(ry.v)
         THEN Emit(SharpRect(x.v, y.v, w.v, h.v))
         ELSE Emit(RoundRect(x.v, y.v, w.v, h.v, rx.v, ry.v))

ConvertRect(attr_dict) ==
    RectOf(float(get(attr_dict, "x", Zero)), float(get(attr_dict, "y", Zero)),
           float(get(attr_dict, "width", Zero)), float(get(attr_dict, "height", Zero)),
           float(get(attr_dict, "rx", Zero)), float(get(attr_dict, "ry", Zero)))

\* f"A {r},{r} 0 1,0 {px},{cy}"
HalfCircle(r, px, cy) ==
    <<"A", " ">> \o fmt(r) \o Comma \o fmt(r)
        \o <<" ", "0", " ", "1", ",", "0", " ">> \o fmt(px) \o Comma \o fmt(cy)

\* f"M {cx-r},{cy} A {r},{r} 0 1,0 {cx+r},{cy} A {r},{r} 0 1,0 {cx-r},{cy}"
CirclePath(cx, cy, r) ==
    <<"M", " ">> \o fmt(FSub(cx, r)) \o Comma \o fmt(cy) \o Sp
        \o HalfCircle(r, FAdd(cx, r), cy) \o Sp \o HalfCircle(r, FSub(cx, r), cy)

\* cx, cy, r are the results of the three float() calls
CircleOf(cx, cy, r) ==
    IF FirstRaised(<<cx, cy, r>>) # "none" THEN Raise(FirstRaised(<<cx, cy, r>>))
    ELSE Emit(CirclePath(cx.v, cy.v, r.v))

ConvertCircle(attr_dict) ==
    CircleOf(float(get(attr_dict, "cx", Zero)), float(get(attr_dict, "cy", Zero)),
             float(get(attr_dict, "r", Zero)))

\* the if/elif chain over the tag name; any other tag appends nothing
ConvertTag(tag, attr_dict) ==
    CASE tag = "path"     -> ConvertPath(attr_dict)
      [] tag = "line"     -> ConvertLine(attr_dict)
      [] tag = "polyline" -> ConvertPolyline(attr_dict)
      [] tag = "polygon"  -> ConvertPolygon(attr_dict)
      [] tag = "rect"     -> ConvertRect(attr_dict)
      [] tag = "circle"   -> ConvertCircle(attr_dict)
      [] OTHER            -> Nothing

\* the loop over the tags found: the first exception ends it
RECURSIVE ConvertTags(_, _)
TagStep(r, rest, acc) ==
    IF r.raised # "none" THEN [raised |-> r.raised, paths |-> <<>>]
    ELSE ConvertTags(rest, acc \o r.out)

ConvertTags(tags, acc) ==
    IF tags = <<>> THEN [raised |-> "none", paths |-> acc]
    ELSE TagStep(ConvertTag(Head(tags).tag, Head(tags).attrs), Tail(tags), acc)

\* svg.wrapped: re.search(r'<svg.*?>(.*)</svg>') matched; svg.tags: the
\* (tag, attribute dict) pairs of the tags re.findall found, in order
parse_svg_content(svg) ==
    IF ~svg.wrapped THEN [raised |-> "none", paths |-> <<>>]
    ELSE ConvertTags(svg.tags, <<>>)

----------------------------------------------------------------------------
(* The regular expressions of parse_svg_content, on the characters of the
   markup: what re.search and re.findall hand to the loop over the tags *)

\* \w
IsWord(c) == IsUpper(c) \/ IsLower(c) \/ IsDigit(c) \/ c = "_"

Quote == "\""

Min(S) == CHOOSE x \in S : \A y \in S : x <= y

Max(S) == CHOOSE x \in S : \A y \in S : x >= y

\* the literal p stands in s at position i
At(s, i, p) == i + Len(p) - 1 <= Len(s) /\ SubSeq(s, i, i + Len(p) - 1) = p

\* the end of a greedy run \w+ that starts at i: the first position from i on
\* whose character is not of the class, Len(s) + 1 if there is none
WordEnd(s, i) == Min({ j \in i..(Len(s) + 1) : j = Len(s) + 1 \/ ~IsWord(s[j]) })

\* the same for \s+ and \s*
SpaceEnd(s, i) == Min({ j \in i..(Len(s) + 1) : j = Len(s) + 1 \/ ~IsSpace(s[j]) })

\* the first position from i on that holds the character ch, Len(s) + 1 if
\* there is none: the end of a run of [^"]* or of . (which stops at "\n")
FirstOf(s, i, ch) == Min({ j \in i..(Len(s) + 1) : j = Len(s) + 1 \/ s[j] = ch })

SvgOpen == <<"<", "s", "v", "g">>

SvgClose == <<"<", "/", "s", "v", "g", ">">>

\* the positions at which </svg> stands
SvgCloses(svg) == { k \in 1..Len(svg) : At(svg, k, SvgClose) }

\* .*?> after <svg at i, lazily: the positions of a > that still has a </svg>
\* after it
SvgOpenEnds(svg, i, closes) ==
    { j \in (i + Len(SvgOpen))..Len(svg) : svg[j] = ">" /\ \E k \in closes : k > j }

\* the positions at which <svg.*?>(.*)</svg> matches
SvgStarts(svg, closes) ==
    { i \in 1..Len(svg) : At(svg, i, SvgOpen) /\ SvgOpenEnds(svg, i, closes) # {} }

\* re.search(r'<svg.*?>(.*)</svg>', svg, re.DOTALL); group(1) of the leftmost
\* match runs from the first such > to the last </svg>
SearchIn(svg, closes) ==
    IF SvgStarts(svg, closes) = {} THEN [matched |-> FALSE, content |-> <<>>]
    ELSE [matched |-> TRUE,
          content |-> SubSeq(svg,
                             Min(SvgOpenEnds(svg, Min(SvgStarts(svg, closes)), closes)) + 1,
                             Max(closes) - 1)]

search_svg(svg) == SearchIn(svg, SvgCloses(svg))

\* the pattern with the slash required: <(\w+)\s+(.*?)\s*/>
TagClosesRequired(c, t) == t + 1 <= Len(c) /\ c[t] = "/" /\ c[t + 1] = ">"

\* \s*/?> matches at e, the whitespace run from e ending at t
TagCloses(c, t) ==
    \/ t <= Len(c) /\ c[t] = ">"
    \/ t + 1 <= Len(c) /\ c[t] = "/" /\ c[t + 1] = ">"

\* the position after the match of \s*/?> whose whitespace run ends at t
TagCloseEnd(c, t) == IF c[t] = ">" THEN t + 1 ELSE t + 2

\* (.*?) from a, lazily: the ends e at which \s*/?> follows, no newline in
\* between (the flags of findall leave . short of "\n")
AttrsEnds(c, a) ==
    { e \in a..FirstOf(c, a, "\n") : e <= Len(c) /\ TagCloses(c, SpaceEnd(c, e)) }

\* <(\w+)\s+(.*?)\s*/?> matches at s, the word run after < ending at w and
\* the whitespace run after it at a (a greedy run that gives characters back
\* finds no other match)
TagMatchesFrom(c, s, w) ==
    /\ w > s + 1
    /\ SpaceEnd(c, w) > w
    /\ AttrsEnds(c, SpaceEnd(c, w)) # {}

TagMatchesAt(c, s) == c[s] = "<" /\ TagMatchesFrom(c, s, WordEnd(c, s + 1))

\* the match at s: its two groups and the position after it
TagMatchOf(c, s, w, a, e) ==
    [tag   |-> SubSeq(c, s + 1, w - 1),
     attrs |-> SubSeq(c, a, e - 1),
     end   |-> TagCloseEnd(c, SpaceEnd(c, e))]

TagMatch(c, s) ==
    LET w == WordEnd(c, s + 1)
        a == SpaceEnd(c, w)
    IN  TagMatchOf(c, s, w, a, Min(AttrsEnds(c, a)))

\* (\w+)="([^"]*)" matches at s, the word run from s ending at w
AttrMatchesFrom(attrs, s, w) ==
    /\ w > s
    /\ At(attrs, w, <<"=", Quote>>)
    /\ FirstOf(attrs, w + 2, Quote) <= Len(attrs)

AttrMatchesAt(attrs, s) == AttrMatchesFrom(attrs, s, WordEnd(attrs, s))

\* the match at s: the name, the value and the position after the closing quote
AttrMatch(attrs, s) ==
    LET w == WordEnd(attrs, s)
        q == FirstOf(attrs, w + 2, Quote)
    IN  [key |-> Str(SubSeq(attrs, s, w - 1)), value |-> SubSeq(attrs, w + 2, q - 1),
         end |-> q + 1]

\* attr_dict[attr[0]] = attr[1]
SetItem(attr_dict, key, value) ==
    [k \in DOMAIN attr_dict \cup {key} |-> IF k = key THEN value ELSE attr_dict[k]]

\* for attr in re.findall(r'(\w+)="([^"]*)"', attrs): the matches from p on,
\* leftmost first, each one set in the dict
RECURSIVE AttrDictFrom(_, _, _)
AttrDictNext(attrs, m, attr_dict) ==
    AttrDictFrom(attrs, m.end, SetItem(attr_dict, m.key, m.value))

AttrDictFrom(attrs, p, attr_dict) ==
    LET starts == { s \in p..Len(attrs) : AttrMatchesAt(attrs, s) }
    IN  IF starts = {} THEN attr_dict
        ELSE AttrDictNext(attrs, AttrMatch(attrs, Min(starts)), attr_dict)

AttrDict(attrs) == AttrDictFrom(attrs, 1, <<>>)

\* re.findall(r'<(\w+)\s+(.*?)\s*/?>', content): the matches from p on,
\* leftmost first, none overlapping; each with the dict of its attributes
RECURSIVE FindTagsFrom(_, _)
FindTagsNext(content, m) ==
    <<[tag |-> Str(m.tag), attrs |-> AttrDict(m.attrs)]>> \o FindTagsFrom(content, m.end)

FindTagsFrom(content, p) ==
    LET starts == { s \in p..Len(content) : TagMatchesAt(content, s) }
    IN  IF starts = {} THEN <<>>
        ELSE FindTagsNext(content, TagMatch(content, Min(starts)))

FindTags(content) == FindTagsFrom(content, 1)

\* the markup as the loop of parse_svg_content sees it
ScannedOf(found) ==
    [wrapped |-> found.matched,
     tags    |-> IF found.matched THEN FindTags(found.content) ELSE <<>>]

Scanned(text) == ScannedOf(search_svg(text))

\* parse_svg_content on the characters of the markup
parse_svg_text(text) == parse_svg_content(Scanned(text))

----------------------------------------------------------------------------
(* generate_xml and the files *)

IconTypePrefix == <<"I", "c", "o", "n", "T", "y", "p", "e", ":", ":">>

\* f"ic_{to_snake_case(name.replace('IconType::', ''))}.xml"
Filename(name) ==
    "ic_" \o Str(to_snake_case(replace(name, IconTypePrefix, <<>>))) \o ".xml"

\* one <path .../> element of path_elements
PathElement(path) ==
    "\n    <path\n        android:pathData=\"" \o Str(path)
        \o "\"\n        android:strokeColor=\"#FFFFFF\""
        \o "\n        android:strokeWidth=\"2\""
        \o "\n        android:strokeLineCap=\"round\""
        \o "\n        android:strokeLineJoin=\"round\" />"

RECURSIVE PathElements(_)
PathElements(ps) ==
    IF ps = <<>> THEN "" ELSE PathElement(Head(ps)) \o PathElements(Tail(ps))

XmlContent(ps) ==
    "<vector xmlns:android=\"http://schemas.android.com/apk/res/android\""
        \o "\n    android:width=\"24dp\""
        \o "\n    android:height=\"24dp\""
        \o "\n    android:viewportWidth=\"24.0\""
        \o "\n    android:viewportHeight=\"24.0\""
        \o "\n    android:tint=\"?attr/colorControlNormal\">"
        \o "\n    " \o PathElements(ps)
        \o "\n</vector>"

generate_xml(name, ps) == [filename |-> Filename(name), content |-> XmlContent(ps)]

output_dir == "android/app/src/main/res/drawable"

\* the directories os.makedirs(output_dir) walks through, outermost first
OutputDirChain ==
    <<"android", "android/app", "android/app/src", "android/app/src/main",
      "android/app/src/main/res", output_dir>>

\* makedirs called on the parent of output_dir
makedirs_parent(ds) == ds \cup (Range(OutputDirChain) \ {output_dir})

\* os.makedirs(output_dir, exist_ok=True): every missing directory of the
\* chain is created, the existing ones are left alone
makedirs(ds) == ds \cup Range(OutputDirChain)

\* os.path.join(output_dir, filename)
join(dir, filename) == dir \o "/" \o filename

\* the file opened with mode "a": content is added to what the file holds
AppendFile(fs, filepath, content) ==
    [q \in DOMAIN fs \cup {filepath} |->
        IF q # filepath THEN fs[q]
        ELSE IF q \in DOMAIN fs THEN fs[q] \o content ELSE content]

\* open(filepath, "w") ... f.write(content): the file holds content alone
WriteFile(fs, filepath, content) ==
    [q \in DOMAIN fs \cup {filepath} |-> IF q = filepath THEN content ELSE fs[q]]

\* the line printed with the path of the file in place of its name
PrintGeneratedPath(out, filename) == Append(out, "Generated " \o join(output_dir, filename))

\* print(f"Generated {filename}")
PrintGenerated(out, filename) == Append(out, "Generated " \o filename)

\* the loop without its `if paths:` guard
AnyPaths(ps) == TRUE

\* `if paths:` of the main loop
HasPaths(ps) == ps # <<>>

----------------------------------------------------------------------------
(* The inputs *)

MaxIcons == 3

MaxNameLen == 4

MaxPointsLen == 7

\* all sequences over S of length 0..n
SeqsUpTo(S, n) == UNION { [1..k -> S] : k \in 0..n }

\* an attribute that the tag does not carry
Absent == <<"ABSENT">>

\* the attribute dict of a tag: the attributes that are present
Attrs(rec) == [k \in { a \in DOMAIN rec : rec[a] # Absent } |-> rec[k]]

Tag(tag, rec) == [tag |-> tag, attrs |-> Attrs(rec)]

Svg(tags) == [wrapped |-> TRUE, tags |-> tags]

Icon(stem, svg) == [name |-> IconTypePrefix \o stem, svg |-> svg]

\* <rect x="5" y="2" width="14" height="20" rx="2" ry="2"/><line x1="12" y1="18" x2="12.01" y2="18"/>
AndroidSvg ==
    Svg(<<Tag("rect", [x |-> <<"5">>, y |-> <<"2">>, width |-> <<"1", "4">>,
                       height |-> <<"2", "0">>, rx |-> <<"2">>, ry |-> <<"2">>]),
          Tag("line", [x1 |-> <<"1", "2">>, y1 |-> <<"1", "8">>,
                       x2 |-> <<"1", "2", ".", "0", "1">>, y2 |-> <<"1", "8">>])>>)

PlayPoints == <<"5", " ", "3", " ", "1", "9", " ", "1", "2", " ", "5", " ", "2", "1", " ", "5", " ", "3">>

\* <polygon points="5 3 19 12 5 21 5 3"/>
PlaySvg == Svg(<<Tag("polygon", [points |-> PlayPoints])>>)

\* <circle cx="12" cy="7" r="4"/> after a path
ContactSvg ==
    Svg(<<Tag("path", [d |-> <<"M", "2", "0", " ", "2", "1", "v", "-", "2">>]),
          Tag("circle", [cx |-> <<"1", "2">>, cy |-> <<"7">>, r |-> <<"4">>])>>)

\* <line x1="18" y1="6" x2="6" y2="18"/>
CloseSvg ==
    Svg(<<Tag("line", [x1 |-> <<"1", "8">>, y1 |-> <<"6">>, x2 |-> <<"6">>, y2 |-> <<"1", "8">>])>>)

\* <polyline points="17 1 21 5 17 9"/> and a sharp rect
PauseSvg ==
    Svg(<<Tag("polyline", [points |-> <<"1", "7", " ", "1", " ", "2", "1", " ", "5", " ", "1", "7", " ", "9">>]),
          Tag("rect", [x |-> <<"6">>, y |-> <<"4">>, width |-> <<"4">>, height |-> <<"1", "6">>])>>)

\* no recognized shape tag: a group and a text element
NoShapeSvg ==
    Svg(<<Tag("g", [fill |-> <<"r", "e", "d">>]), Tag("text", [x |-> <<"1">>])>>)

\* markup in which <svg ...>...</svg> is not found
NotSvg == [wrapped |-> FALSE, tags |-> <<>>]

\* a path, then a rect with width="abc"
BadRectSvg ==
    Svg(<<Tag("path", [d |-> <<"M", "1", " ", "1">>]),
          Tag("rect", [x |-> <<"2">>, y |-> <<"3">>, width |-> <<"a", "b", "c">>,
                       height |-> <<"2", "0">>])>>)

\* a line, then a polyline with three numbers
OddPolylineSvg ==
    Svg(<<Tag("line", [x1 |-> <<"1">>]),
          Tag("polyline", [points |-> <<"1", " ", "2", " ", "3">>])>>)

IconPool ==
    { Icon(<<"T", "v">>, AndroidSvg),
      Icon(<<"T", "V">>, PlaySvg),
      Icon(<<"N", "a", "v", "F", "i", "l", "e", "s">>, ContactSvg),
      Icon(<<"N", "a", "v", "_", "f", "i", "l", "e", "s">>, CloseSvg),
      Icon(<<"N", "a", "v", "M", "e", "d", "i", "a">>, PauseSvg),
      Icon(<<"B", "l", "o", "c", "k">>, NoShapeSvg),
      Icon(<<"S", "e", "n", "d">>, NotSvg),
      Icon(<<"C", "l", "o", "s", "e">>, BadRectSvg),
      Icon(<<"S", "y", "n", "c">>, OddPolylineSvg) }

NoFiles == <<>>

NoFirstRun == [files |-> NoFiles, writes |-> <<>>]

\* files left by an earlier generation, one of them at a path this run writes
StaleFiles ==
    [q \in {join(output_dir, "ic_tv.xml"), join(output_dir, "ic_old.xml")} |-> "stale"]

\* the directory tree and the files before the run
Disks ==
    { [dirs |-> {}, files |-> NoFiles],
      [dirs |-> Range(OutputDirChain), files |-> StaleFiles] }

----------------------------------------------------------------------------
(* The script: makedirs, then the loop over matches *)

UnitOff == arg = <<>> /\ ret = <<>> /\ upc = "off"

Init ==
    /\ matches \in SeqsUpTo(IconPool, MaxIcons)
    /\ \E disk \in Disks : dirs = disk.dirs /\ files = disk.files
    /\ console = <<>>
    /\ writeLog = <<>>
    /\ pc = "makedirs"
    /\ idx = 1
    /\ paths = <<>>
    /\ err = "none"
    /\ mkdirCalls = 0
    /\ run = 1
    /\ firstRun = NoFirstRun
    /\ UnitOff

\* os.makedirs(output_dir, exist_ok=True)
MakeDirs ==
    /\ pc = "makedirs"
    /\ dirs' = makedirs(dirs)
    /\ mkdirCalls' = mkdirCalls + 1
    /\ pc' = "loop"
    /\ UNCHANGED <<matches, files, console, writeLog, idx, paths, err, run, firstRun>>
    /\ UNCHANGED unitVars

Raises(r) == r.raised # "none" /\ err' = r.raised

Skips(r) == r.raised = "none" /\ ~HasPaths(r.paths) /\ paths' = r.paths

Converts(r) == r.raised = "none" /\ HasPaths(r.paths) /\ paths' = r.paths

\* paths = parse_svg_content(svg) raises: nothing catches it, the script ends
ParseRaises ==
    /\ pc = "loop"
    /\ idx <= Len(matches)
    /\ Raises(parse_svg_content(matches[idx].svg))
    /\ pc' = "aborted"
    /\ UNCHANGED <<matches, dirs, files, console, writeLog, idx, paths, mkdirCalls, run, firstRun>>
    /\ UNCHANGED unitVars

\* paths = parse_svg_content(svg); `if paths:` is false, next icon
ParseSkips ==
    /\ pc = "loop"
    /\ idx <= Len(matches)
    /\ Skips(parse_svg_content(matches[idx].svg))
    /\ idx' = idx + 1
    /\ UNCHANGED <<matches, dirs, files, console, writeLog, pc, err, mkdirCalls, run, firstRun>>
    /\ UNCHANGED unitVars

\* paths = parse_svg_content(svg); `if paths:` is true
ParseConverts ==
    /\ pc = "loop"
    /\ idx <= Len(matches)
    /\ Converts(parse_svg_content(matches[idx].svg))
    /\ pc' = "write"
    /\ UNCHANGED <<matches, dirs, files, console, writeLog, idx, err, mkdirCalls, run, firstRun>>
    /\ UNCHANGED unitVars

Written(g, filepath) ==
    /\ files' = WriteFile(files, filepath, g.content)
    /\ writeLog' = Append(writeLog, [icon |-> idx, filename |-> g.filename,
                                     filepath |-> filepath, content |-> g.content,
                                     dirs |-> dirs])

WriteXml(g) == Written(g, join(output_dir, g.filename))

\* generate_xml, os.path.join, and the with block that writes the file
Write ==
    /\ pc = "write"
    /\ WriteXml(generate_xml(matches[idx].name, paths))
    /\ pc' = "print"
    /\ UNCHANGED <<matches, dirs, console, idx, paths, err, mkdirCalls, run, firstRun>>
    /\ UNCHANGED unitVars

\* print(f"Generated {filename}"), then the next icon
PrintLine ==
    /\ pc = "print"
    /\ console' = PrintGenerated(console, generate_xml(matches[idx].name, paths).filename)
    /\ idx' = idx + 1
    /\ pc' = "loop"
    /\ UNCHANGED <<matches, dirs, files, writeLog, paths, err, mkdirCalls, run, firstRun>>
    /\ UNCHANGED unitVars

\* the loop is exhausted: the script ends normally
Finish ==
    /\ pc = "loop"
    /\ idx > Len(matches)
    /\ pc' = "done"
    /\ UNCHANGED <<matches, dirs, files, console, writeLog, idx, paths, err, mkdirCalls, run, firstRun>>
    /\ UNCHANGED unitVars

\* the script is started again on the same icon_rs_content, on the disk as
\* the first run left it
RunAgain ==
    /\ pc \in {"done", "aborted"}
    /\ run = 1
    /\ run' = 2
    /\ firstRun' = [files |-> files, writes |-> writeLog]
    /\ console' = <<>>
    /\ writeLog' = <<>>
    /\ pc' = "makedirs"
    /\ idx' = 1
    /\ paths' = <<>>
    /\ err' = "none"
    /\ mkdirCalls' = 0
    /\ UNCHANGED <<matches, dirs, files>>
    /\ UNCHANGED unitVars

Next ==
    \/ MakeDirs
    \/ ParseRaises
    \/ ParseSkips
    \/ ParseConverts
    \/ Write
    \/ PrintLine
    \/ Finish
    \/ RunAgain

Spec == Init /\ [][Next]_vars

----------------------------------------------------------------------------
(* Unit specification: to_snake_case applied to a name, then to its result *)

PipelineOff ==
    /\ matches = <<>>
    /\ dirs = {}
    /\ files = NoFiles
    /\ console = <<>>
    /\ writeLog = <<>>
    /\ pc = "off"
    /\ idx = 1
    /\ paths = <<>>
    /\ err = "none"
    /\ mkdirCalls = 0
    /\ run = 1
    /\ firstRun = NoFirstRun

NameChars == {"A", "B", "a", "b", "1", "_"}

\* icon names of icon_rs_content, and names with an acronym
KnownNames ==
    { <<"D", "e", "v", "i", "c", "e", "U", "n", "k", "n", "o", "w", "n">>,
      <<"N", "a", "v", "C", "l", "i", "p", "b", "o", "a", "r", "d">>,
      <<"H", "T", "T", "P", "S", "e", "r", "v", "e", "r">>,
      <<"T", "v", "H", "D", "2", "G", "o">> }

NameInputs == SeqsUpTo(NameChars, MaxNameLen) \cup KnownNames

InitSnake ==
    /\ PipelineOff
    /\ arg \in NameInputs
    /\ ret = <<>>
    /\ upc = "name"

SnakeOnce ==
    /\ upc = "name"
    /\ ret' = <<to_snake_case(arg)>>
    /\ upc' = "once"
    /\ UNCHANGED arg
    /\ UNCHANGED pipelineVars

SnakeAgain ==
    /\ upc = "once"
    /\ ret' = Append(ret, to_snake_case(ret[1]))
    /\ upc' = "twice"
    /\ UNCHANGED arg
    /\ UNCHANGED pipelineVars

NextSnake == SnakeOnce \/ SnakeAgain

SpecSnake == InitSnake /\ [][NextSnake]_vars

----------------------------------------------------------------------------
(* Unit specification: the conversion of one shape tag *)

XTexts == { Absent, <<"2">>, <<"-", "3">>, <<"2", ".", "5">> }

YTexts == { Absent, <<"3">>, <<"0", "2">> }

WidthTexts == { Absent, <<"1", "4">>, <<"0">>, <<"+", "5">>, <<"a", "b", "c">> }

HeightTexts == { <<"2", "0">>, <<"-", "0">>, <<"7", ".", "5">> }

RxTexts == { Absent, <<"0">>, <<"2">>, <<"2", "0">>, <<"1", "x">> }

RyTexts == { Absent, <<"0">>, <<"0", ".", "0">>, <<"2">>, <<" ", "1", ".", "5", " ">> }

RectInputs ==
    { Tag("rect", rec) :
        rec \in [x : XTexts, y : YTexts, width : WidthTexts, height : HeightTexts,
                 rx : RxTexts, ry : RyTexts] }

CircleInputs ==
    { Tag("circle", rec) :
        rec \in [cx : { Absent, <<"1", "2">>, <<"1", "7", ".", "5">>, <<"-">> },
                 cy : { Absent, <<"1", "2">>, <<"1", "5", ".", "5">> },
                 r  : { Absent, <<"1", "0">>, <<"2", ".", "5">>, <<>>, <<"2", "0">> }] }

PointChars == {"1", "2", " ", ","}

PointsInputs ==
    SeqsUpTo(PointChars, MaxPointsLen)
        \cup { Absent, PlayPoints,
               <<"2", "2", " ", "1", "2", " ", "1", "6", " ", "1", "2", " ", "1", "4", " ", "1", "5", " ", "1", "0", " ", "1", "5", " ", "8", " ", "1", "2", " ", "2", " ", "1", "2">>,
               <<"1", "2", " ", "9", " ", "1", "2", " ", "1", "2", " ", "1", "3", ".", "5", " ", "1", "3", ".", "5">>,
               <<"1", ",", "2", " ", "3", ",", "4", " ", "5">> }

PolyInputs ==
    { Tag(t, [points |-> p]) : t \in {"polyline", "polygon"}, p \in PointsInputs }

LineInputs ==
    { Tag("line", rec) :
        rec \in [x1 : { Absent, <<"1">> }, y1 : { Absent, <<"2">> },
                 x2 : { Absent, <<"3">>, <<"1", "2", ".", "0", "1">> },
                 y2 : { Absent, <<"4">>, <<"a">> }] }

PathInputs ==
    { Tag(t, [d |-> p]) : t \in {"path", "g"}, p \in { Absent, <<>>, <<"M", "1", "2", " ", "1", "3", "v", "4">> } }

ShapeInputs == RectInputs \cup CircleInputs \cup PolyInputs \cup LineInputs \cup PathInputs

InitShape ==
    /\ PipelineOff
    /\ arg \in ShapeInputs
    /\ ret = <<>>
    /\ upc = "tag"

\* one pass of the loop body of parse_svg_content on the tag
ConvertShape ==
    /\ upc = "tag"
    /\ ret' = ConvertTag(arg.tag, arg.attrs)
    /\ upc' = "converted"
    /\ UNCHANGED arg
    /\ UNCHANGED pipelineVars

NextShape == ConvertShape

SpecShape == InitShape /\ [][NextShape]_vars

----------------------------------------------------------------------------
(* Unit specification: parse_svg_content applied to the characters of an svg
   literal whose body is made of group tags and shape tags *)

\* the longest body, in pieces
MaxPieces == 4

\* <svg viewBox="0">
SvgHead ==
    <<"<", "s", "v", "g", " ", "v", "i", "e", "w", "B", "o", "x", "=", Quote, "0", Quote, ">">>

\* <g fill="x">
GroupOpen == <<"<", "g", " ", "f", "i", "l", "l", "=", Quote, "x", Quote, ">">>

\* <g>
GroupBare == <<"<", "g", ">">>

\* </g>
GroupClose == <<"<", "/", "g", ">">>

\* <path d="M1"/>
PathEl == <<"<", "p", "a", "t", "h", " ", "d", "=", Quote, "M", "1", Quote, "/", ">">>

\* <circle r="2" />
CircleEl ==
    <<"<", "c", "i", "r", "c", "l", "e", " ", "r", "=", Quote, "2", Quote, " ", "/", ">">>

\* a line break and the indentation of the next line
LineBreak == <<"\n", " ", " ">>

Pieces == { GroupOpen, GroupBare, GroupClose, PathEl, CircleEl, LineBreak }

RECURSIVE Concat(_)
Concat(pieces) == IF pieces = <<>> THEN <<>> ELSE Head(pieces) \o Concat(Tail(pieces))

\* the svg literal with that body
MarkupOf(pieces) == SvgHead \o Concat(pieces) \o SvgClose

InitMarkup ==
    /\ PipelineOff
    /\ arg \in SeqsUpTo(Pieces, MaxPieces)
    /\ ret = <<>>
    /\ upc = "markup"

\* parse_svg_content(svg) on the literal
ParseMarkup ==
    /\ upc = "markup"
    /\ ret' = parse_svg_text(MarkupOf(arg))
    /\ upc' = "parsed"
    /\ UNCHANGED arg
    /\ UNCHANGED pipelineVars

NextMarkup == ParseMarkup

SpecMarkup == InitMarkup /\ [][NextMarkup]_vars

----------------------------------------------------------------------------
(* Properties of the script (specification Spec) *)

\* the texts of the inputs that Python's float() rejects
NonNumericTexts == { <<"a", "b", "c">>, <<>>, <<"1", "x">>, <<"-">> }

NumericAttrs(tag) ==
    IF tag = "rect" THEN {"x", "y", "width", "height", "rx", "ry"}
    ELSE IF tag = "circle" THEN {"cx", "cy", "r"}
    ELSE {}

\* the tag is a rect or a circle with a non-numeric value in a numeric attribute
BadNumberTag(t) ==
    \E a \in NumericAttrs(t.tag) \cap DOMAIN t.attrs : t.attrs[a] \in NonNumericTexts

HasBadNumber(svg) == svg.wrapped /\ \E i \in DOMAIN svg.tags : BadNumberTag(svg.tags[i])

HasPolyTag(svg) == \E i \in DOMAIN svg.tags : svg.tags[i].tag \in {"polyline", "polygon"}

\* C1: an icon with a non-numeric value in a numeric attribute of a rect or
\* a circle ends the run: the script never gets to the write or the print of
\* that icon nor to any later icon, no write of the run belongs to it or to a
\* later icon, its conversion raises, and the run does not end normally; the
\* exception is the ValueError of float() unless a polyline or polygon of the
\* same icon raised first.
C1_BadNumberAborts ==
    \A k \in DOMAIN matches :
        HasBadNumber(matches[k].svg) =>
            /\ idx <= k
            /\ pc # "done"
            /\ idx = k => pc \in {"makedirs", "loop", "aborted"}
            /\ \A j \in DOMAIN writeLog : writeLog[j].icon < k
            /\ Len(console) < k
            /\ parse_svg_content(matches[k].svg).raised \in {"ValueError", "IndexError"}
            /\ ~HasPolyTag(matches[k].svg) =>
                   /\ parse_svg_content(matches[k].svg).raised = "ValueError"
                   /\ (idx = k /\ pc = "aborted") => err = "ValueError"

\* the run aborted on a bad number at an icon that has icons before and after it
C1_Witness ==
    /\ pc = "aborted"
    /\ err = "ValueError"
    /\ HasBadNumber(matches[idx].svg)
    /\ writeLog # <<>>
    /\ idx < Len(matches)

RecognizedTags == {"path", "line", "polyline", "polygon", "rect", "circle"}

\* the markup holds no recognized shape tag
NoShape(svg) == \A i \in DOMAIN svg.tags : svg.tags[i].tag \notin RecognizedTags

\* the path list parse_svg_content returns for icon k is non-empty
NonEmptyPaths(k) ==
    LET parsed == parse_svg_content(matches[k].svg)
    IN  parsed.raised = "none" /\ parsed.paths # <<>>

\* C2: a file is written and a line printed only for an icon whose path list
\* is non-empty: the writes (and the lines) of the run are exactly the icons
\* passed so far with a non-empty path list; an icon with no recognized shape
\* tag converts to the empty path list without raising, and is never at the
\* write or print position nor the icon at which the run aborts.
C2_OnlyNonEmptyWritten ==
    LET nonEmpty == { k \in DOMAIN matches : NonEmptyPaths(k) }
    IN
    /\ \A j \in DOMAIN writeLog : writeLog[j].icon \in nonEmpty
    /\ pc \in {"write", "print"} => idx \in nonEmpty
    /\ Len(console) = Cardinality(nonEmpty \cap 1..(idx - 1))
    /\ Len(writeLog) = Len(console) + (IF pc = "print" THEN 1 ELSE 0)
    /\ \A k \in DOMAIN matches :
           NoShape(matches[k].svg) =>
               /\ \A j \in DOMAIN writeLog : writeLog[j].icon # k
               /\ idx = k => pc \in {"makedirs", "loop"}
               /\ parse_svg_content(matches[k].svg) = [raised |-> "none", paths |-> <<>>]

\* an icon without shape tags was passed over and the next icon was written
C2_Witness ==
    /\ pc = "print"
    /\ idx >= 2
    /\ NoShape(matches[idx - 1].svg)
    /\ matches[idx - 1].svg.tags # <<>>
    /\ Len(writeLog) = 1

\* C5: the console holds one line "Generated <filename>" per completed write,
\* in the order of the writes; a line is printed only after its file is
\* written, so the lines never outnumber the writes, lag by at most the one
\* write whose line is due, and match the writes when the run is between
\* icons or over.
C5_ConsoleFollowsWrites ==
    /\ Len(console) <= Len(writeLog)
    /\ Len(writeLog) <= Len(console) + 1
    /\ \A j \in DOMAIN console :
           /\ console[j] = "Generated " \o writeLog[j].filename
           /\ writeLog[j].filepath \in DOMAIN files
    /\ pc # "print" => Len(console) = Len(writeLog)

\* a file is written whose line is not printed yet, after a skipped icon
C5_Witness ==
    /\ pc = "print"
    /\ Len(writeLog) = 2
    /\ Len(console) = 1
    /\ idx = 3

SameWrite(a, b) == a.filepath = b.filepath /\ a.content = b.content

\* C6: the second run on the same input makes the writes of the first run
\* again, each to the same path with the same bytes and in the same order,
\* creates and removes no file, and when it is over the files are the ones
\* the first run left, with the same contents.
C6_SecondRunSameFiles ==
    run = 2 =>
        /\ Len(writeLog) <= Len(firstRun.writes)
        /\ \A j \in DOMAIN writeLog : SameWrite(writeLog[j], firstRun.writes[j])
        /\ DOMAIN files = DOMAIN firstRun.files
        /\ pc \in {"done", "aborted"} =>
               /\ files = firstRun.files
               /\ Len(writeLog) = Len(firstRun.writes)

\* the second run has rewritten two files beside a file it does not write
C6_Witness ==
    /\ run = 2
    /\ pc = "done"
    /\ Len(writeLog) >= 2
    /\ join(output_dir, "ic_old.xml") \in DOMAIN files

\* C9: os.makedirs runs once per run, first: before it nothing is converted,
\* written or printed; after it the output directory exists; every write was
\* made with the output directory in place.  Aborted runs and runs without a
\* write included.
C9_DirFirst ==
    /\ mkdirCalls <= 1
    /\ pc = "makedirs" =>
           mkdirCalls = 0 /\ idx = 1 /\ paths = <<>> /\ writeLog = <<>> /\ console = <<>>
    /\ pc # "makedirs" => mkdirCalls = 1 /\ Range(OutputDirChain) \subseteq dirs
    /\ \A j \in DOMAIN writeLog : output_dir \in writeLog[j].dirs

\* a run that wrote a file and then aborted
C9_Witness == pc = "aborted" /\ writeLog # <<>> /\ mkdirCalls = 1 /\ run = 1

Stem(k) == replace(matches[k].name, IconTypePrefix, <<>>)

NamesDistinct == \A i, j \in DOMAIN matches : i # j => matches[i].name # matches[j].name

WritesDistinct ==
    \A i, j \in DOMAIN writeLog : i # j => writeLog[i].filepath # writeLog[j].filepath

NamesDistinctFolded ==
    /\ \A k \in DOMAIN matches : "_" \notin Range(Stem(k))
    /\ \A i, j \in DOMAIN matches : i # j => lower(Stem(i)) # lower(Stem(j))

\* where the file of icon k is and what it must hold after a run that ended
\* normally
FinalPathOf(k) == join(output_dir, Filename(matches[k].name))

FinalContentOf(k) == XmlContent(parse_svg_content(matches[k].svg).paths)

----------------------------------------------------------------------------
(* Properties of the conversion of one tag (specification SpecShape) *)

\* What Python gives for the numeric texts of the inputs: repr(float(text)),
\* repr(-float(text)) and float(text) counted in halves.
PythonFloats ==
    { [text |-> <<"0">>, repr |-> "0.0", negated |-> "-0.0", halves |-> 0],
      [text |-> <<"2">>, repr |-> "2.0", negated |-> "-2.0", halves |-> 4],
      [text |-> <<"-", "3">>, repr |-> "-3.0", negated |-> "3.0", halves |-> -6],
      [text |-> <<"2", ".", "5">>, repr |-> "2.5", negated |-> "-2.5", halves |-> 5],
      [text |-> <<"3">>, repr |-> "3.0", negated |-> "-3.0", halves |-> 6],
      [text |-> <<"0", "2">>, repr |-> "2.0", negated |-> "-2.0", halves |-> 4],
      [text |-> <<"1", "4">>, repr |-> "14.0", negated |-> "-14.0", halves |-> 28],
      [text |-> <<"+", "5">>, repr |-> "5.0", negated |-> "-5.0", halves |-> 10],
      [text |-> <<"2", "0">>, repr |-> "20.0", negated |-> "-20.0", halves |-> 40],
      [text |-> <<"-", "0">>, repr |-> "-0.0", negated |-> "0.0", halves |-> 0],
      [text |-> <<"7", ".", "5">>, repr |-> "7.5", negated |-> "-7.5", halves |-> 15],
      [text |-> <<"0", ".", "0">>, repr |-> "0.0", negated |-> "-0.0", halves |-> 0],
      [text |-> <<" ", "1", ".", "5", " ">>, repr |-> "1.5", negated |-> "-1.5", halves |-> 3] }

\* the text of the attribute as the code reads it: "0" when absent
Given(a) == get(arg.attrs, a, Zero)

Known(text) == \E row \in PythonFloats : row.text = text

RowOf(text) == CHOOSE row \in PythonFloats : row.text = text

Converted(tag) == upc = "converted" /\ arg.tag = tag

RectNumeric == \A a \in NumericAttrs("rect") : Known(Given(a))

\* the conversion of the unit specification never leaves the modelled floats
ModelledFloatsOnly == upc = "converted" => ret.raised # "unmodelled"

\* C3 as claimed: a polyline or polygon whose points hold n tokens, commas
\* counting as whitespace, converts without raising; for n >= 2 to one datum,
\* M to the first pair then one L per later pair (n \div 2 pairs), with " Z"
\* appended for the polygon; for n < 2 to nothing.  For every n, odd n too.
PointTokens == split(replace(get(arg.attrs, "points", <<>>), <<",">>, <<" ">>))

RECURSIVE LinesTo(_, _)
LinesTo(toks, pair) ==
    IF 2 * pair > Len(toks) THEN <<>>
    ELSE <<" ", "L", " ">> \o toks[2 * pair - 1] \o <<" ">> \o toks[2 * pair]
             \o LinesTo(toks, pair + 1)

PolyDatum(toks, tag) ==
    <<"M", " ">> \o toks[1] \o <<" ">> \o toks[2] \o LinesTo(toks, 2)
        \o (IF tag = "polygon" THEN <<" ", "Z">> ELSE <<>>)

PolyAsClaimed ==
    /\ ret.raised = "none"
    /\ Len(PointTokens) >= 2 => ret.out = <<PolyDatum(PointTokens, arg.tag)>>
    /\ Len(PointTokens) < 2 => ret.out = <<>>

C3_PointsConvert == (Converted("polyline") \/ Converted("polygon")) => PolyAsClaimed

\* the same with the odd counts of three or more left out: this part holds
C3_EvenPointsConvert ==
    ((Converted("polyline") \/ Converted("polygon"))
         /\ (Len(PointTokens) % 2 = 0 \/ Len(PointTokens) < 2)) => PolyAsClaimed

\* and an odd count of three or more always raises IndexError
C3_OddPointsRaise ==
    ((Converted("polyline") \/ Converted("polygon"))
         /\ Len(PointTokens) % 2 = 1 /\ Len(PointTokens) >= 3) => ret = Raise("IndexError")

SharpCase ==
    /\ Converted("rect")
    /\ RectNumeric
    /\ RowOf(Given("rx")).halves = 0
    /\ RowOf(Given("ry")).halves = 0

\* C4 as claimed: a rect with rx and ry zero or absent gives exactly
\* "M x y h width v height h -width Z", the numbers written as in the
\* attributes.
C4_SharpRectAsGiven ==
    SharpCase =>
        /\ Len(ret.out) = 1
        /\ Str(ret.out[1]) =
               "M " \o Str(Given("x")) \o " " \o Str(Given("y"))
                   \o " h " \o Str(Given("width")) \o " v " \o Str(Given("height"))
                   \o " h -" \o Str(Given("width")) \o " Z"

\* C4 as amended: the numbers are written as Python writes the floats the
\* attributes parse to (2 becomes 2.0), and the last one is the negated
\* width (0 becomes -0.0); rect(2, 3, 14, 20, 0, 0) gives
\* "M 2.0 3.0 h 14.0 v 20.0 h -14.0 Z".
C4_SharpRectAsFloats ==
    SharpCase =>
        /\ ret.raised = "none"
        /\ Len(ret.out) = 1
        /\ Str(ret.out[1]) =
               "M " \o RowOf(Given("x")).repr \o " " \o RowOf(Given("y")).repr
                   \o " h " \o RowOf(Given("width")).repr
                   \o " v " \o RowOf(Given("height")).repr
                   \o " h " \o RowOf(Given("width")).negated \o " Z"
        /\ (/\ Given("x") = <<"2">> /\ Given("y") = <<"3">>
            /\ Given("width") = <<"1", "4">> /\ Given("height") = <<"2", "0">>)
               => Str(ret.out[1]) = "M 2.0 3.0 h 14.0 v 20.0 h -14.0 Z"

\* rect(x=2, y=3, width=14, height=20, rx=0, ry=0) is converted
C4_Witness ==
    /\ SharpCase
    /\ arg.attrs = [x |-> <<"2">>, y |-> <<"3">>, width |-> <<"1", "4">>,
                    height |-> <<"2", "0">>, rx |-> <<"0">>, ry |-> <<"0">>]

RoundCase ==
    /\ Converted("rect")
    /\ RectNumeric
    /\ RowOf(Given("rx")).halves # 0 \/ RowOf(Given("ry")).halves # 0

\* the value of attribute a, in halves
H(a) == RowOf(Given(a)).halves

IsSep(c) == c \in {" ", ","}

\* the first position from i on that holds no separator, 0 if there is none
NextStart(d, i) ==
    IF \E j \in i..Len(d) : ~IsSep(d[j])
    THEN CHOOSE j \in i..Len(d) : ~IsSep(d[j]) /\ \A m \in i..(j - 1) : IsSep(d[m])
    ELSE 0

\* the last position of the token that starts at i
TokenEnd(d, i) ==
    CHOOSE j \in i..Len(d) :
        /\ \A m \in i..j : ~IsSep(d[m])
        /\ j = Len(d) \/ IsSep(d[j + 1])

RECURSIVE TokensFrom(_, _)
TokensFrom(d, i) ==
    LET st == NextStart(d, i)
    IN  IF st = 0 THEN <<>>
        ELSE LET e == TokenEnd(d, st)
             IN  <<SubSeq(d, st, e)>> \o TokensFrom(d, e + 1)

\* the tokens of a path datum: what blanks and commas separate
PathTokens(d) == TokensFrom(d, 1)

\* the value of a number token of the path, in halves
TokenHalves(tok) == SInt(float(tok).v)

\* the points the rounded rect goes through, in halves, start point first
RoundRectPoints ==
    << <<H("x") + H("rx"), H("y")>>,
       <<H("x") + H("width") - H("rx"), H("y")>>,
       <<H("x") + H("width"), H("y") + H("ry")>>,
       <<H("x") + H("width"), H("y") + H("height") - H("ry")>>,
       <<H("x") + H("width") - H("rx"), H("y") + H("height")>>,
       <<H("x") + H("rx"), H("y") + H("height")>>,
       <<H("x"), H("y") + H("height") - H("ry")>>,
       <<H("x"), H("y") + H("ry")>>,
       <<H("x") + H("rx"), H("y")>> >>

IsPoint(toks, at, p) ==
    TokenHalves(toks[at]) = p[1] /\ TokenHalves(toks[at + 1]) = p[2]

\* tokens at..at+2 are a line to p
IsLine(toks, at, p) == toks[at] = <<"L">> /\ IsPoint(toks, at + 1, p)

\* tokens at..at+7 are an arc of radii (rx, ry), large-arc 0, sweep 1, to p
IsArc(toks, at, p) ==
    /\ toks[at] = <<"A">>
    /\ TokenHalves(toks[at + 1]) = H("rx")
    /\ TokenHalves(toks[at + 2]) = H("ry")
    /\ toks[at + 3] = <<"0">>
    /\ toks[at + 4] = <<"0">>
    /\ toks[at + 5] = <<"1">>
    /\ IsPoint(toks, at + 6, p)

IsRoundRect(toks) ==
    /\ Len(toks) = 48
    /\ toks[1] = <<"M">>
    /\ IsPoint(toks, 2, RoundRectPoints[1])
    /\ \A c \in 0..3 :
           /\ IsLine(toks, 4 + 11 * c, RoundRectPoints[2 + 2 * c])
           /\ IsArc(toks, 7 + 11 * c, RoundRectPoints[3 + 2 * c])
    /\ Cardinality({ i \in DOMAIN toks : toks[i] = <<"L">> }) = 4
    /\ Cardinality({ i \in DOMAIN toks : toks[i] = <<"A">> }) = 4
    /\ <<toks[46], toks[47]>> = <<toks[2], toks[3]>>
    /\ toks[48] = <<"Z">>

\* C10: a rect with rx or ry not zero gives one path: M at (x+rx, y), then four
\* times a straight edge and an arc of radii (rx, ry) with flags 0 and 1,
\* through (x+w-rx, y), (x+w, y+ry), (x+w, y+h-ry), (x+w-rx, y+h), (x+rx, y+h),
\* (x, y+h-ry), (x, y+ry) and back to the start point, then Z; the radii are
\* the attributes' values, whatever the width and the height.
C10_RoundRectPath ==
    RoundCase =>
        /\ ret.raised = "none"
        /\ Len(ret.out) = 1
        /\ IsRoundRect(PathTokens(ret.out[1]))

\* rx alone is not zero and is more than half the width
C10_Witness ==
    /\ RoundCase
    /\ H("ry") = 0
    /\ 2 * H("rx") > H("width")
    /\ H("width") > 0

----------------------------------------------------------------------------
(* Properties of to_snake_case (specification SpecSnake) *)

IsSnakeChar(c) == IsLower(c) \/ IsDigit(c) \/ c = "_"

\* C8: to_snake_case applied to its own result gives that result again, and
\* a name of lowercase letters, digits and underscores is its own result.
C8_SnakeIdempotent ==
    /\ upc = "twice" => ret[2] = ret[1]
    /\ (upc \in {"once", "twice"} /\ \A i \in DOMAIN arg : IsSnakeChar(arg[i])) => ret[1] = arg

\* a name with an acronym went through twice
C8_Witness ==
    /\ upc = "twice"
    /\ arg = <<"H", "T", "T", "P", "S", "e", "r", "v", "e", "r">>
    /\ Str(ret[1]) = "http_server"

----------------------------------------------------------------------------
(* Properties of the scan for tags (specification SpecMarkup) *)

IsGroupOpen(piece) == piece \in {GroupOpen, GroupBare}

IsShapePiece(piece) == piece \in {PathEl, CircleEl}

\* the number of groups open at piece i of the body
Depth(body, i) ==
    Cardinality({ j \in 1..(i - 1) : IsGroupOpen(body[j]) })
        - Cardinality({ j \in 1..(i - 1) : body[j] = GroupClose })

\* every </g> closes a group and every group is closed
WellNested(body) ==
    /\ \A i \in DOMAIN body : body[i] = GroupClose => Depth(body, i) > 0
    /\ Depth(body, Len(body) + 1) = 0

\* the path datum the converter makes of a shape piece, as Python prints it
DatumOf(piece) ==
    IF piece = PathEl THEN "M1"
    ELSE "M -2.0,0.0 A 2.0,2.0 0 1,0 2.0,0.0 A 2.0,2.0 0 1,0 -2.0,0.0"

\* the data of the shape pieces at the positions of I, in the order of the body
RECURSIVE DataAt(_, _)
DataAt(body, I) ==
    IF I = {} THEN <<>>
    ELSE <<DatumOf(body[Min(I)])>> \o DataAt(body, I \ {Min(I)})

ShapesAt(body) == { i \in DOMAIN body : IsShapePiece(body[i]) }

DirectShapesAt(body) == { i \in ShapesAt(body) : Depth(body, i) = 0 }

NestedShapesAt(body) == { i \in ShapesAt(body) : Depth(body, i) > 0 }

\* the path list returned, each datum as a string
ReturnedData == [i \in DOMAIN ret.paths |-> Str(ret.paths[i])]

\* C11: shape extraction finds only the tags at the direct child level of the
\* svg element: a path, line, polyline, polygon, rect or circle nested inside
\* a group element contributes no path datum, so the path list of a
\* well-nested literal holds the data of its direct children only.
C11_NestedInvisible ==
    (upc = "parsed" /\ WellNested(arg)) =>
        /\ ret.raised = "none"
        /\ ReturnedData = DataAt(arg, DirectShapesAt(arg))

\* C11 as amended: the scan takes no account of nesting: every shape tag of
\* the literal, a direct child of the svg element or nested inside group
\* elements, with or without attributes, contributes its path datum, in the
\* order of the text.
C11_NestedConverted ==
    upc = "parsed" =>
        /\ ret.raised = "none"
        /\ ReturnedData = DataAt(arg, ShapesAt(arg))

\* a literal with a shape inside a group and a shape outside was parsed, and
\* the datum of each is in the path list
C11_Witness ==
    /\ upc = "parsed"
    /\ WellNested(arg)
    /\ NestedShapesAt(arg) # {}
    /\ DirectShapesAt(arg) # {}
    /\ Len(ret.paths) = Cardinality(ShapesAt(arg))
    /\ \E i \in NestedShapesAt(arg) : \E k \in DOMAIN ret.paths :
           Str(ret.paths[k]) = DatumOf(arg[i])

============================================================================
